---- MODULE Spec2Model ----
(***************************************************************************)
(* Personal finance tracker: the ledger file, the budget file, and the     *)
(* menu operations of src/main.py that write them or derive figures from   *)
(* them; with them, the dashboard's forms (src/streamlit_app.py,           *)
(* src/utils.py), which write the same two files, and the CSV import and   *)
(* the integrity check of the data management.                             *)
(*                                                                         *)
(* Specifications: SpecBudgets (overview and alerts), SpecHealth (health   *)
(* score), SpecAssistant (recommendations), SpecAnalytics (the three       *)
(* analyses and the monthly report over ledgers of earlier sessions),      *)
(* SpecFilter (filter_transactions_by_month over ledger files that may     *)
(* hold dates that are none), SpecMoney (the conversions between typed     *)
(* amounts and paisa), SpecLedger (the ledger under the console, the       *)
(* dashboard, the import and the integrity check), SpecBudgetStore (the    *)
(* budget file under the console and the dashboard), SpecReadOnly (every   *)
(* operation that only reads), SpecAgreement (the operations that judge a  *)
(* budget, side by side), SpecPeriods (the months of the trends, for every *)
(* day of three years).                                                    *)
(*                                                                         *)
(* Money is integer paisa.  An amount typed at a prompt is modelled in     *)
(* thousandths of a rupee (m stands for the text m/1000), so that to_paisa *)
(* has something to round.                                                 *)
(*                                                                         *)
(* A date string "Y-M-D" is the record [y, m, d, mm]: mm says whether the  *)
(* month was typed with two digits ("2026-03-15") or one ("2026-3-15").    *)
(* strptime("%Y-%m-%d") accepts both and get_valid_date stores the text as *)
(* typed.  A month >= 10 always has two digits.                            *)
(*                                                                         *)
(* Percentages the code computes in floating point (spent/amount*100,      *)
(* savings/income*100, income*0.20) are kept as exact fractions num/den;   *)
(* the comparisons against 70, 80, 100, 20, 10 and 0 agree with the float  *)
(* comparisons for all amounts below 10^12 paisa.                          *)
(***************************************************************************)
EXTENDS Integers, Sequences, FiniteSets, TLC

VARIABLES
    transactions_file,  \* database/transactions.txt: the lines, in file order
    budgets_file,       \* database/budgets.txt: the lines, in file order
    today,              \* datetime.now(), the same during one run
    out                 \* what the last menu operation printed

vars == <<transactions_file, budgets_file, today, out>>

-----------------------------------------------------------------------------
(* Bounds *)

\* most lines the ledger file grows to
MaxTx == 2

\* most lines of a ledger left by earlier sessions, given to the analyses
MaxLedger == 3

\* the largest amount typed for conversion, 0.300, in thousandths of a rupee
MaxMilli == 300

\* the largest stored amount shown and converted back, in paisa
MaxPaisa == 100

-----------------------------------------------------------------------------
(* Constants of the program *)

EXPENSE_CATEGORIES == {"Food", "Other"}

INCOME_SOURCES == {"Salary", "Other"}

\* thresholds of view_budgets
OverPercent == 100

WarningPercent == 70

\* threshold of get_spending_alerts
ApproachingPercent == 80

\* large transaction: amount > income * 0.20, i.e. amount * 5 > income
LargeTransactionDivisor == 5

-----------------------------------------------------------------------------
(* Money handling *)

\* int(round(amount * 100)) for the amount m/1000: nearest paisa; Python's
\* round() sends a tie to the even neighbour (m below 540; float error moves
\* some larger ties).
to_paisa(m) ==
    LET q == m \div 10
        r == m % 10
    IN  IF r < 5 THEN q
        ELSE IF r > 5 THEN q + 1
        ELSE IF q % 2 = 0 THEN q ELSE q + 1

\* get_valid_amount re-prompts until float(text) > 0
amount_accepted(m) == m > 0

get_valid_amount(m) == to_paisa(m)

\* from_paisa with the integer division of Python 2: whole rupees only
from_paisa_floor_division(paisa_amount) == (paisa_amount \div 100) * 1000

\* paisa_amount / 100.0, in thousandths of a rupee
from_paisa(paisa_amount) == paisa_amount * 10

\* the amounts up to 0.560 for which the float product amount * 100 falls
\* just below the whole number it stands for: 0.29 * 100 = 28.999999999999996
product_falls_short(m) == m \in {290}

\* int(amount * 100) for the amount m/1000: int() drops the fraction
truncate_to_paisa(m) ==
    LET magnitude == IF m < 0 THEN -m ELSE m
        paisa     == IF product_falls_short(magnitude)
                     THEN (magnitude \div 10) - 1
                     ELSE magnitude \div 10
    IN  IF m < 0 THEN -paisa ELSE paisa

\* st.number_input(..., min_value=0.01)
number_input_accepts(m) == m >= 10

\* the value the console keeps for the amount typed at its prompt
convert_at_prompt ==
    /\ out.op = "amount"
    /\ amount_accepted(out.amount)
    /\ out' = [op     |-> "get_valid_amount",
               amount |-> out.amount,
               paisa  |-> get_valid_amount(out.amount)]
    /\ UNCHANGED <<transactions_file, budgets_file, today>>

\* the value the dashboard's transaction form and budget form keep
convert_in_form(forms) ==
    /\ out.op = "amount"
    /\ number_input_accepts(out.amount)
    /\ \E form \in forms :
          out' = [op     |-> form,
                  amount |-> out.amount,
                  paisa  |-> truncate_to_paisa(out.amount)]
    /\ UNCHANGED <<transactions_file, budgets_file, today>>

\* the value import_transactions_csv keeps for the amount column of a row
convert_on_import ==
    /\ out.op = "amount"
    /\ out' = [op     |-> "import_transactions_csv",
               amount |-> out.amount,
               paisa  |-> truncate_to_paisa(out.amount)]
    /\ UNCHANGED <<transactions_file, budgets_file, today>>

\* a stored amount shown, and the amount shown converted again
show_and_convert_back ==
    /\ out.op = "stored"
    /\ out' = [op      |-> "from_paisa",
               paisa   |-> out.paisa,
               display |-> from_paisa(out.paisa),
               back    |-> to_paisa(from_paisa(out.paisa))]
    /\ UNCHANGED <<transactions_file, budgets_file, today>>

-----------------------------------------------------------------------------
(* Dates *)

last_month_date(td) ==
    IF td.month = 1 THEN [year |-> td.year - 1, month |-> 12]
    ELSE [year |-> td.year, month |-> td.month - 1]

\* t.date.startswith(today.strftime("%Y-%m")): strftime pads the month, so a
\* date typed with a one-digit month never matches.
date_startswith_month(date, td) ==
    /\ date.y = td.year
    /\ date.m = td.month
    /\ date.mm

\* datetime.strptime(t.date, "%Y-%m-%d").year == year and .month == month
date_in_month(date, year, month) ==
    /\ date.y = year
    /\ date.m = month

-----------------------------------------------------------------------------
(* Files *)

\* The ledger file holds lines of four kinds.  A line of the console,
\* "date,type,category,description,amount", is the record of its five fields.
\* The dashboard writes a header line "Date,Type,Category,Amount,Description"
\* and rows in that column order; import_transactions_csv writes one JSON
\* object per line.  These carry their layout with them.
layout(line) == IF "layout" \in DOMAIN line THEN line.layout ELSE "console"

\* a description is free text; a comma in it adds a field to the line
HasComma(description) == description \in {"tea, cake"}

\* a description that int() accepts
IsIntegerText(description) == description \in {"5"}

int_of_text(description) == IF description = "5" THEN 5 ELSE 0

\* line.strip().split(",", 4) then int(fifth field).  Console line: with a
\* comma in the description the fifth field is "rest,amount", int() raises
\* ValueError and the line is skipped.  Dashboard row: the fifth field is the
\* description.  Header: the fifth field is "Description".  JSON line: the
\* fifth field ends with "}".
line_parses(line) ==
    CASE layout(line) = "console"   -> ~HasComma(line.description)
      [] layout(line) = "dashboard" -> IsIntegerText(line.description)
      [] OTHER                      -> FALSE

\* Transaction(date, type, category, description, amount) from the five
\* fields in the console's order
read_line(line) ==
    IF layout(line) = "console"
    THEN line
    ELSE [date        |-> line.date,
          type        |-> line.type,
          category    |-> line.category,
          description |-> ToString(line.amount),
          amount      |-> int_of_text(line.description)]

load_transactions(file) ==
    LET accepted == SelectSeq(file, line_parses)
    IN  [i \in DOMAIN accepted |-> read_line(accepted[i])]

\* line.strip().split(",", 1) then int(second field): the dashboard's header
\* line "Category,Budget" is skipped
budget_line_parses(line) == layout(line) = "console"

load_budgets(file) == SelectSeq(file, budget_line_parses)

\* open(TRANSACTIONS_FILE, "a"): one more line
save_transaction(file, transaction) == Append(file, transaction)

save_budgets(budgets) == budgets

-----------------------------------------------------------------------------
(* Aggregation *)

RECURSIVE sum_amounts(_)
sum_amounts(s) ==
    IF s = <<>> THEN 0 ELSE Head(s).amount + sum_amounts(Tail(s))

is_expense(t) == t.type = "expense"

is_income(t) == t.type = "income"

filter_transactions_by_month(transactions, year, month) ==
    SelectSeq(transactions, LAMBDA t : date_in_month(t.date, year, month))

get_total_spending(transactions) ==
    sum_amounts(SelectSeq(transactions, is_expense))

get_total_income(transactions) ==
    sum_amounts(SelectSeq(transactions, is_income))

\* {b.category: 0 for b in budgets}, then += t.amount for every expense whose
\* date starts with the current "%Y-%m" and whose category is a key
category_spending(budgets, transactions, td) ==
    [c \in {budgets[i].category : i \in DOMAIN budgets} |->
        sum_amounts(SelectSeq(transactions,
            LAMBDA t : /\ date_startswith_month(t.date, td)
                       /\ t.type = "expense"
                       /\ t.category = c))]

\* percent_of, reporting a zero budget with spend against it as fully used
percent_of_zero_as_full(part, whole) ==
    IF whole > 0 THEN [num |-> part * 100, den |-> whole]
    ELSE [num |-> IF part > 0 THEN 100 ELSE 0, den |-> 1]

\* a percentage as the fraction num/den, den > 0
percent_of(part, whole) ==
    IF whole > 0 THEN [num |-> part * 100, den |-> whole]
    ELSE [num |-> 0, den |-> 1]

percent_ge(p, k) == p.num >= k * p.den

percent_lt(p, k) == p.num < k * p.den

-----------------------------------------------------------------------------
(* Budget overview: view_budgets *)

\* budget_status with the warning band opening above 70 instead of at 70
budget_status_above_70(utilization) ==
    IF percent_ge(utilization, OverPercent) THEN "OVER"
    ELSE IF utilization.num > WarningPercent * utilization.den THEN "WARNING"
    ELSE "OK"

\* utilization_percent >= 100 -> OVER, >= 70 -> WARNING, else OK
budget_status(utilization) ==
    IF percent_ge(utilization, OverPercent) THEN "OVER"
    ELSE IF percent_ge(utilization, WarningPercent) THEN "WARNING"
    ELSE "OK"

\* one table row: spent, remaining, utilization and status of a budget
budget_row(budget, spending) ==
    LET spent == spending[budget.category]
        utilization_percent == percent_of(spent, budget.amount)
    IN  [category    |-> budget.category,
         budget      |-> budget.amount,
         spent       |-> spent,
         remaining   |-> budget.amount - spent,
         utilization |-> utilization_percent,
         status      |-> budget_status(utilization_percent)]

RECURSIVE sum_spent(_)
sum_spent(rows) ==
    IF rows = <<>> THEN 0 ELSE Head(rows).spent + sum_spent(Tail(rows))

\* overall_utilization_percent >= 90 / < 50
overall_recommendation(overall) ==
    IF percent_ge(overall, 90) THEN "review"
    ELSE IF percent_lt(overall, 50) THEN "great"
    ELSE "none"

budget_overview(budgets, transactions, td) ==
    LET spending == category_spending(budgets, transactions, td)
        rows == [i \in 1..Len(budgets) |-> budget_row(budgets[i], spending)]
        total_budget_amount == sum_amounts(budgets)
        total_spent_amount == sum_spent(rows)
        overall == percent_of(total_spent_amount, total_budget_amount)
    IN  [op              |-> "view_budgets",
         shown           |-> TRUE,
         rows            |-> rows,
         total_budget    |-> total_budget_amount,
         total_spent     |-> total_spent_amount,
         total_remaining |-> total_budget_amount - total_spent_amount,
         overall         |-> overall,
         over_budget_categories |->
             LET over == SelectSeq(rows, LAMBDA r : r.status = "OVER")
             IN  [i \in 1..Len(over) |-> over[i].category],
         recommendation  |-> overall_recommendation(overall)]

view_budgets ==
    LET budgets == load_budgets(budgets_file)
    IN  /\ out' = IF budgets = <<>>
                  THEN [op |-> "view_budgets", shown |-> FALSE]
                  ELSE budget_overview(budgets,
                                       load_transactions(transactions_file),
                                       today)
        /\ UNCHANGED <<transactions_file, budgets_file, today>>

-----------------------------------------------------------------------------
(* Alerts: get_spending_alerts, printed by daily_financial_check *)

\* budget_alert with the approaching band opening above 80 instead of at 80
budget_alert_above_80(utilization) ==
    IF utilization.num > ApproachingPercent * utilization.den
       /\ percent_lt(utilization, OverPercent) THEN "approaching"
    ELSE IF percent_ge(utilization, OverPercent) THEN "exceeded"
    ELSE "none"

\* 80 <= utilization < 100 -> approaching; utilization >= 100 -> exceeded
budget_alert(utilization) ==
    IF percent_ge(utilization, ApproachingPercent)
       /\ percent_lt(utilization, OverPercent) THEN "approaching"
    ELSE IF percent_ge(utilization, OverPercent) THEN "exceeded"
    ELSE "none"

budget_alerts(budgets, transactions, td) ==
    LET spending == category_spending(budgets, transactions, td)
        all == [i \in 1..Len(budgets) |->
                   [kind     |-> budget_alert(
                                     percent_of(spending[budgets[i].category],
                                                budgets[i].amount)),
                    category |-> budgets[i].category,
                    amount   |-> budgets[i].amount]]
    IN  SelectSeq(all, LAMBDA a : a.kind # "none")

is_large_at_or_above(amount, monthly_income) ==
    amount * LargeTransactionDivisor >= monthly_income

\* t.amount > monthly_income * 0.20
is_large(amount, monthly_income) ==
    amount * LargeTransactionDivisor > monthly_income

large_transaction_alerts(transactions, td) ==
    LET current_month_transactions ==
            filter_transactions_by_month(transactions, td.year, td.month)
        monthly_income == get_total_income(current_month_transactions)
        large == SelectSeq(current_month_transactions,
                     LAMBDA t : is_expense(t) /\ is_large(t.amount, monthly_income))
    IN  IF monthly_income > 0
        THEN [i \in 1..Len(large) |->
                 [kind     |-> "large",
                  category |-> large[i].category,
                  amount   |-> large[i].amount]]
        ELSE <<>>

spending_alerts(budgets, transactions, td) ==
    (IF budgets # <<>> THEN budget_alerts(budgets, transactions, td) ELSE <<>>)
    \o large_transaction_alerts(transactions, td)

get_spending_alerts ==
    /\ out' = [op     |-> "get_spending_alerts",
               alerts |-> spending_alerts(load_budgets(budgets_file),
                                          load_transactions(transactions_file),
                                          today)]
    /\ UNCHANGED <<transactions_file, budgets_file, today>>

-----------------------------------------------------------------------------
(* smart_recommendations (assistant.py) *)

\* low_savings_rate with a rate of exactly 10% counted as low
low_savings_rate_at_or_below_10(total_income, total_spending) ==
    /\ total_income > 0
    /\ ~percent_ge(percent_of(total_income - total_spending, total_income), 10)
           \/ (total_income - total_spending) * 100 = 10 * total_income

\* total_income > 0 and ((total_income - total_spending) / total_income) * 100 < 10
low_savings_rate(total_income, total_spending) ==
    /\ total_income > 0
    /\ percent_lt(percent_of(total_income - total_spending, total_income), 10)

\* the budget categories whose accumulated spend is above the budget amount
over_budget_categories(budgets, transactions, td) ==
    LET spending == category_spending(budgets, transactions, td)
        over == SelectSeq(budgets, LAMBDA b : spending[b.category] > b.amount)
    IN  [i \in 1..Len(over) |-> over[i].category]

\* the list smart_recommendations builds, one entry per message appended
recommendations(budgets, transactions, td) ==
    LET current_month_transactions ==
            filter_transactions_by_month(transactions, td.year, td.month)
        total_income == get_total_income(current_month_transactions)
        total_spending == get_total_spending(current_month_transactions)
        overspending ==
            IF budgets # <<>> /\ over_budget_categories(budgets, transactions, td) # <<>>
            THEN <<"over_budget">> ELSE <<>>
        savings ==
            IF low_savings_rate(total_income, total_spending)
            THEN <<"low_savings_rate">> ELSE <<>>
        no_budgets == IF budgets = <<>> THEN <<"no_budgets">> ELSE <<>>
        so_far == overspending \o savings \o no_budgets
    IN  IF budgets # <<>> /\ so_far = <<>> THEN <<"good_performance">> ELSE so_far

smart_recommendations ==
    /\ out' = [op |-> "smart_recommendations",
               recommendations |-> recommendations(load_budgets(budgets_file),
                                                   load_transactions(transactions_file),
                                                   today)]
    /\ UNCHANGED <<transactions_file, budgets_file, today>>

-----------------------------------------------------------------------------
(* Financial health score: financial_health_score *)

\* points of the placeholder "Debt Management" factor
debt_score == 10

\* savings_score with the top band opening above 20% instead of at 20%
savings_score_above_20(total_income, total_spending) ==
    LET savings_rate == percent_of(total_income - total_spending, total_income)
    IN  IF savings_rate.num > 20 * savings_rate.den THEN 30
        ELSE IF percent_ge(savings_rate, 10) THEN 20
        ELSE IF savings_rate.num > 0 THEN 10
        ELSE 0

\* savings_rate >= 20 -> 30, >= 10 -> 20, > 0 -> 10, else 0 (income > 0)
savings_score(total_income, total_spending) ==
    LET savings_rate == percent_of(total_income - total_spending, total_income)
    IN  IF percent_ge(savings_rate, 20) THEN 30
        ELSE IF percent_ge(savings_rate, 10) THEN 20
        ELSE IF savings_rate.num > 0 THEN 10
        ELSE 0

\* spent > budget.amount, counted over the budgets
over_budget_count(budgets, spending) ==
    Cardinality({i \in DOMAIN budgets :
                    spending[budgets[i].category] > budgets[i].amount})

\* budget_adherence_score giving 15 only below half of the budgets
budget_adherence_score_below_half(budgets, spending) ==
    LET over_count == over_budget_count(budgets, spending)
    IN  IF budgets = <<>> THEN 0
        ELSE IF over_count = 0 THEN 25
        ELSE IF 2 * over_count < Len(budgets) THEN 15
        ELSE 5

\* 0 without budgets; else 25 / 15 (over_count <= len/2) / 5
budget_adherence_score(budgets, spending) ==
    LET over_count == over_budget_count(budgets, spending)
    IN  IF budgets = <<>> THEN 0
        ELSE IF over_count = 0 THEN 25
        ELSE IF 2 * over_count <= Len(budgets) THEN 15
        ELSE 5

\* income_vs_expense_score giving the full 25 when income only equals expenses
income_vs_expense_score_at_par(total_income, total_spending) ==
    IF total_income > 0
    THEN IF total_income >= total_spending THEN 25
         ELSE 5
    ELSE 0

\* if total_income > total_spending: 25; == : 15; else 5 (income > 0)
income_vs_expense_score(total_income, total_spending) ==
    IF total_income > 0
    THEN IF total_income > total_spending THEN 25
         ELSE IF total_income = total_spending THEN 15
         ELSE 5
    ELSE 0

\* interpretation with "excellent" opening above 80 instead of at 80
interpretation_above_80(score) ==
    IF score > 80 THEN "excellent"
    ELSE IF score >= 60 THEN "good"
    ELSE IF score >= 40 THEN "fair"
    ELSE "needs attention"

\* total_score leaving the debt placeholder out
total_score_without_debt(savings_na, savings, adherence, ive) ==
    (IF savings_na THEN 0 ELSE savings) + adherence + ive

\* score = 0, then += each factor that applies, then += debt_score
total_score(savings_na, savings, adherence, ive) ==
    (IF savings_na THEN 0 ELSE savings) + adherence + ive + debt_score

\* >= 80 excellent, >= 60 good, >= 40 fair, else needs attention
interpretation(score) ==
    IF score >= 80 THEN "excellent"
    ELSE IF score >= 60 THEN "good"
    ELSE IF score >= 40 THEN "fair"
    ELSE "needs attention"

health_report(budgets, transactions, td) ==
    LET current_month_transactions ==
            filter_transactions_by_month(transactions, td.year, td.month)
        total_income_cm == get_total_income(current_month_transactions)
        total_spending_cm == get_total_spending(current_month_transactions)
        spending == category_spending(budgets, transactions, td)
        savings_na == ~(total_income_cm > 0)
        savings == IF savings_na THEN 0
                   ELSE savings_score(total_income_cm, total_spending_cm)
        adherence == budget_adherence_score(budgets, spending)
        ive == income_vs_expense_score(total_income_cm, total_spending_cm)
        score == total_score(savings_na, savings, adherence, ive)
    IN  [op                 |-> "financial_health_score",
         computed           |-> TRUE,
         income             |-> total_income_cm,
         spending           |-> total_spending_cm,
         n_budgets          |-> Len(budgets),
         over_count         |-> over_budget_count(budgets, spending),
         savings_na         |-> savings_na,
         savings_score      |-> savings,
         budget_adherence_score  |-> adherence,
         income_vs_expense_score |-> ive,
         debt_score         |-> debt_score,
         score              |-> score,
         interpretation     |-> interpretation(score)]

\* financial_health_score without the early return on an empty ledger
financial_health_score_always_scores ==
    /\ out' = health_report(load_budgets(budgets_file),
                            load_transactions(transactions_file), today)
    /\ UNCHANGED <<transactions_file, budgets_file, today>>

financial_health_score ==
    LET all_transactions == load_transactions(transactions_file)
    IN  /\ out' = IF all_transactions = <<>>
                  THEN [op |-> "financial_health_score", computed |-> FALSE]
                  ELSE health_report(load_budgets(budgets_file),
                                     all_transactions, today)
        /\ UNCHANGED <<transactions_file, budgets_file, today>>

-----------------------------------------------------------------------------
(* Analytics: the grouped totals and the three analyses (analytics.py) *)

RECURSIVE sum_values(_)
\* sum(mapping.values())
sum_values(mapping) ==
    IF DOMAIN mapping = {} THEN 0
    ELSE LET k == CHOOSE c \in DOMAIN mapping : TRUE
         IN  mapping[k] + sum_values([c \in DOMAIN mapping \ {k} |-> mapping[c]])

\* the grouped total with `=` in place of `+=`: the last amount of each key
grouped_by_category_overwriting(transactions, type) ==
    LET matching == SelectSeq(transactions, LAMBDA t : t.type = type)
    IN  [c \in {matching[i].category : i \in DOMAIN matching} |->
            LET of_c == SelectSeq(matching, LAMBDA t : t.category = c)
            IN  of_c[Len(of_c)].amount]

\* a defaultdict(int) that gets `[t.category] += t.amount` for every
\* transaction of the type: its keys are the categories that occurred
grouped_by_category(transactions, type) ==
    LET matching == SelectSeq(transactions, LAMBDA t : t.type = type)
    IN  [c \in {matching[i].category : i \in DOMAIN matching} |->
            sum_amounts(SelectSeq(matching, LAMBDA t : t.category = c))]

get_monthly_spending_by_category(transactions) ==
    grouped_by_category(transactions, "expense")

get_monthly_income_by_source(transactions) ==
    grouped_by_category(transactions, "income")

is_leap(year) == (year % 4 = 0 /\ year % 100 # 0) \/ year % 400 = 0

days_in_month(year, month) ==
    IF month = 2 THEN (IF is_leap(year) THEN 29 ELSE 28)
    ELSE IF month \in {4, 6, 9, 11} THEN 30
    ELSE 31

RECURSIVE minus_days(_, _)
\* date - timedelta(days=n)
minus_days(date, n) ==
    IF n < date.day THEN [date EXCEPT !.day = @ - n]
    ELSE LET before == last_month_date(date)
         IN  minus_days([year  |-> before.year,
                         month |-> before.month,
                         day   |-> days_in_month(before.year, before.month)],
                        n - date.day)

\* today.replace(day=1) - timedelta(days=30*i)
month_date(td, i) == minus_days([td EXCEPT !.day = 1], 30 * i)

\* the months of `for i in range(3)`, after the reverse(): oldest first
trend_months(td) == <<month_date(td, 2), month_date(td, 1), month_date(td, 0)>>

month_transactions(transactions, month) ==
    filter_transactions_by_month(transactions, month.year, month.month)

trend_spending(transactions, td) ==
    [k \in 1..3 |->
        get_total_spending(month_transactions(transactions, trend_months(td)[k]))]

income_over_months(transactions, td) ==
    [k \in 1..3 |->
        get_total_income(month_transactions(transactions, trend_months(td)[k]))]

savings_over_months(transactions, td) ==
    [k \in 1..3 |->
        LET m_transactions == month_transactions(transactions, trend_months(td)[k])
        IN  get_total_income(m_transactions) - get_total_spending(m_transactions)]

\* trend_direction calling an unchanged total a rise
trend_direction_up_on_equal(totals) ==
    IF Len(totals) >= 2
    THEN IF totals[Len(totals)] >= totals[Len(totals) - 1] THEN "UPWARD"
         ELSE "DOWNWARD"
    ELSE "none"

\* if len(trend) >= 2: trend[-1] against trend[-2]
trend_direction(totals) ==
    IF Len(totals) >= 2
    THEN IF totals[Len(totals)] > totals[Len(totals) - 1] THEN "UPWARD"
         ELSE IF totals[Len(totals)] < totals[Len(totals) - 1] THEN "DOWNWARD"
         ELSE "STABLE"
    ELSE "none"

\* the sign of ((current - previous) / previous) * 100 is that of
\* current - previous
change_direction(current, previous) ==
    IF current > previous THEN "increased"
    ELSE IF current < previous THEN "decreased"
    ELSE "same"

\* the comparison with last month of spending_analysis and income_analysis
month_comparison(current, previous) ==
    IF previous > 0
    THEN [outcome        |-> change_direction(current, previous),
          divided        |-> TRUE,
          change_percent |-> percent_of(current - previous, previous)]
    ELSE [outcome        |-> IF current > 0 THEN "new_activity" ELSE "no_activity",
          divided        |-> FALSE,
          change_percent |-> percent_of(0, 0)]

abs(n) == IF n < 0 THEN -n ELSE n

\* income_stability with the boundary of 10% counted as fluctuation
income_stability_below_tenth(totals) ==
    IF Len(totals) = 3
    THEN IF \A i \in 2..3 : 10 * abs(totals[i] - totals[1]) < totals[1]
         THEN "STABLE" ELSE "FLUCTUATING"
    ELSE IF totals # <<>> THEN "NOT_ENOUGH_DATA"
    ELSE "NO_DATA"

\* all(abs(income[i] - income[0]) <= income[0] * 0.1 for i in range(1, 3))
income_stability(totals) ==
    IF Len(totals) = 3
    THEN IF \A i \in 2..3 : 10 * abs(totals[i] - totals[1]) <= totals[1]
         THEN "STABLE" ELSE "FLUCTUATING"
    ELSE IF totals # <<>> THEN "NOT_ENOUGH_DATA"
    ELSE "NO_DATA"

spending_report(transactions, td) ==
    LET current_month_transactions ==
            filter_transactions_by_month(transactions, td.year, td.month)
        last_month_transactions ==
            month_transactions(transactions, last_month_date(td))
        current_month_spending_by_category ==
            get_monthly_spending_by_category(current_month_transactions)
        total_current_month_spending == sum_values(current_month_spending_by_category)
        total_last_month_spending == get_total_spending(last_month_transactions)
    IN  [op          |-> "spending_analysis",
         analysed    |-> TRUE,
         by_category |-> current_month_spending_by_category,
         current     |-> total_current_month_spending,
         previous    |-> total_last_month_spending,
         comparison  |-> month_comparison(total_current_month_spending,
                                          total_last_month_spending),
         totals      |-> trend_spending(transactions, td),
         trend       |-> trend_direction(trend_spending(transactions, td))]

spending_analysis ==
    /\ out' = IF load_transactions(transactions_file) = <<>>
              THEN [op |-> "spending_analysis", analysed |-> FALSE]
              ELSE spending_report(load_transactions(transactions_file), today)
    /\ UNCHANGED <<transactions_file, budgets_file, today>>

income_report(transactions, td) ==
    LET current_month_transactions ==
            filter_transactions_by_month(transactions, td.year, td.month)
        last_month_transactions ==
            month_transactions(transactions, last_month_date(td))
        current_month_income_by_source ==
            get_monthly_income_by_source(current_month_transactions)
        total_current_month_income == sum_values(current_month_income_by_source)
        total_last_month_income == get_total_income(last_month_transactions)
    IN  [op         |-> "income_analysis",
         analysed   |-> TRUE,
         by_source  |-> current_month_income_by_source,
         current    |-> total_current_month_income,
         previous   |-> total_last_month_income,
         comparison |-> month_comparison(total_current_month_income,
                                         total_last_month_income),
         totals     |-> income_over_months(transactions, td),
         stability  |-> income_stability(income_over_months(transactions, td))]

income_analysis ==
    /\ out' = IF load_transactions(transactions_file) = <<>>
              THEN [op |-> "income_analysis", analysed |-> FALSE]
              ELSE income_report(load_transactions(transactions_file), today)
    /\ UNCHANGED <<transactions_file, budgets_file, today>>

savings_report(transactions, td) ==
    LET current_month_transactions ==
            filter_transactions_by_month(transactions, td.year, td.month)
        total_current_month_income == get_total_income(current_month_transactions)
        total_current_month_spending == get_total_spending(current_month_transactions)
        monthly_savings == total_current_month_income - total_current_month_spending
    IN  [op              |-> "savings_analysis",
         analysed        |-> TRUE,
         monthly_savings |-> monthly_savings,
         savings_rate    |-> percent_of(monthly_savings, total_current_month_income),
         totals          |-> savings_over_months(transactions, td),
         trend           |-> trend_direction(savings_over_months(transactions, td))]

savings_analysis ==
    /\ out' = IF load_transactions(transactions_file) = <<>>
              THEN [op |-> "savings_analysis", analysed |-> FALSE]
              ELSE savings_report(load_transactions(transactions_file), today)
    /\ UNCHANGED <<transactions_file, budgets_file, today>>

-----------------------------------------------------------------------------
(* The periods of the analyses as a computation of its own *)

year_month(date) == [year |-> date.year, month |-> date.month]

\* the months the three 'last 3 months' loops go through, oldest first, and
\* the month of the 'comparison with last month'
trend_periods ==
    /\ out.op = "menu"
    /\ out' = [op         |-> "trend_periods",
               periods    |-> [i \in 1..3 |-> year_month(trend_months(today)[i])],
               last_month |-> last_month_date(today)]
    /\ UNCHANGED <<transactions_file, budgets_file, today>>

-----------------------------------------------------------------------------
(* filter_transactions_by_month as a call that can fail *)

\* datetime.strptime(text, "%Y-%m-%d") raises ValueError unless the month
\* is 1..12 and the day exists in that month
strptime_accepts(date) ==
    /\ date.m \in 1..12
    /\ date.d \in 1..days_in_month(date.y, date.m)

\* a filter that skips the dates it cannot parse
filter_raises_never(transactions) == FALSE

\* the comprehension parses the date of every element: one bad date and
\* the ValueError leaves the function
filter_raises(transactions) ==
    \E i \in DOMAIN transactions : ~strptime_accepts(transactions[i].date)

call_filter_transactions_by_month(years, months) ==
    /\ \E year \in years, month \in months :
          out' = IF filter_raises(load_transactions(transactions_file))
                 THEN [op     |-> "filter_transactions_by_month",
                       year   |-> year,
                       month  |-> month,
                       raised |-> TRUE]
                 ELSE [op     |-> "filter_transactions_by_month",
                       year   |-> year,
                       month  |-> month,
                       raised |-> FALSE,
                       result |-> filter_transactions_by_month(
                                      load_transactions(transactions_file),
                                      year, month)]
    /\ UNCHANGED <<transactions_file, budgets_file, today>>

-----------------------------------------------------------------------------
(* The monthly report: generate_monthly_report (analytics.py) *)

\* the budget amounts below 160 paisa for which the float product
\* amount * 0.7 falls just below the whole number 7 * amount / 10
SeventyPercentRoundsDown == {90}

\* spent > budget.amount, then spent > budget.amount * 0.7
report_budget_status(spent, amount) ==
    IF spent > amount THEN "OVER"
    ELSE IF \/ 10 * spent > 7 * amount
            \/ (10 * spent = 7 * amount /\ amount \in SeventyPercentRoundsDown)
         THEN "WARNING"
    ELSE "OK"

report_budget_rows(budgets, transactions, td) ==
    LET spending == category_spending(budgets, transactions, td)
    IN  [i \in DOMAIN budgets |->
            [category |-> budgets[i].category,
             budget   |-> budgets[i].amount,
             spent    |-> spending[budgets[i].category],
             status   |-> report_budget_status(spending[budgets[i].category],
                                               budgets[i].amount)]]

\* the spending line of the trends summary: an `if` without an `else`
report_spending_trend(current, previous) ==
    IF previous > 0
    THEN [outcome |-> change_direction(current, previous), divided |-> TRUE]
    ELSE [outcome |-> "nothing_printed", divided |-> FALSE]

\* the income line of the trends summary
report_income_trend(current, previous) ==
    IF previous > 0
    THEN [outcome |-> change_direction(current, previous), divided |-> TRUE]
    ELSE [outcome |-> "insufficient_data", divided |-> FALSE]

monthly_report(budgets, transactions, td) ==
    LET current_month_transactions ==
            filter_transactions_by_month(transactions, td.year, td.month)
        total_income_cm == get_total_income(current_month_transactions)
        total_spending_cm == get_total_spending(current_month_transactions)
        last_month_transactions ==
            month_transactions(transactions, last_month_date(td))
        total_last_month_spending == get_total_spending(last_month_transactions)
        total_last_month_income == get_total_income(last_month_transactions)
        rows == report_budget_rows(budgets, transactions, td)
    IN  [op                   |-> "generate_monthly_report",
         analysed             |-> TRUE,
         total_income         |-> total_income_cm,
         total_spending       |-> total_spending_cm,
         net_flow             |-> total_income_cm - total_spending_cm,
         income_by_source     |->
             get_monthly_income_by_source(current_month_transactions),
         spending_by_category |->
             get_monthly_spending_by_category(current_month_transactions),
         budget_rows          |-> rows,
         over_budget_count    |->
             Cardinality({i \in DOMAIN rows : rows[i].status = "OVER"}),
         savings_rate         |->
             percent_of(total_income_cm - total_spending_cm, total_income_cm),
         last_month_spending  |-> total_last_month_spending,
         last_month_income    |-> total_last_month_income,
         spending_trend       |->
             report_spending_trend(total_spending_cm, total_last_month_spending),
         income_trend         |->
             report_income_trend(total_income_cm, total_last_month_income),
         projected            |-> total_income_cm > 0 /\ total_spending_cm > 0]

generate_monthly_report ==
    /\ out' = IF /\ load_transactions(transactions_file) = <<>>
                 /\ load_budgets(budgets_file) = <<>>
              THEN [op |-> "generate_monthly_report", analysed |-> FALSE]
              ELSE monthly_report(load_budgets(budgets_file),
                                  load_transactions(transactions_file), today)
    /\ UNCHANGED <<transactions_file, budgets_file, today>>

-----------------------------------------------------------------------------
(* Entry operations: add_expense, add_income, set_budget *)

\* the date texts get_valid_date is given: today (the prompt's default), today
\* with a one-digit month where the month has one, and the same day last month
date_texts(td) ==
    {[y |-> td.year, m |-> td.month, d |-> td.day, mm |-> TRUE]}
    \cup (IF td.month < 10
          THEN {[y |-> td.year, m |-> td.month, d |-> td.day, mm |-> FALSE]}
          ELSE {})
    \cup {[y |-> last_month_date(td).year, m |-> last_month_date(td).month,
           d |-> td.day, mm |-> TRUE]}

add_transaction(type, amounts, categories, descriptions, dates) ==
    /\ Len(transactions_file) < MaxTx
    /\ \E m \in amounts, category \in categories,
          description \in descriptions, date \in dates :
          /\ amount_accepted(m)
          /\ transactions_file' =
                 save_transaction(transactions_file,
                     [date        |-> date,
                      type        |-> type,
                      category    |-> category,
                      description |-> description,
                      amount      |-> get_valid_amount(m)])
    /\ out' = [op |-> IF type = "expense" THEN "add_expense" ELSE "add_income"]
    /\ UNCHANGED <<budgets_file, today>>

add_expense(amounts, descriptions, dates) ==
    add_transaction("expense", amounts, EXPENSE_CATEGORIES, descriptions, dates)

add_income(amounts, sources, descriptions, dates) ==
    add_transaction("income", amounts, sources, descriptions, dates)

\* the first budget of the category is replaced in place (the loop breaks
\* there); without one the new budget is appended
updated_budgets(current_budgets, category, amount) ==
    LET matches == {i \in DOMAIN current_budgets :
                       current_budgets[i].category = category}
    IN  IF matches # {}
        THEN LET first == CHOOSE i \in matches : \A j \in matches : i <= j
             IN  [current_budgets EXCEPT
                     ![first] = [category |-> category, amount |-> amount]]
        ELSE Append(current_budgets, [category |-> category, amount |-> amount])

set_budget(amounts) ==
    /\ \E category \in EXPENSE_CATEGORIES, m \in amounts :
          /\ amount_accepted(m)
          /\ budgets_file' =
                 save_budgets(updated_budgets(load_budgets(budgets_file),
                                              category, get_valid_amount(m)))
          /\ out' = [op       |-> "set_budget",
                     category |-> category,
                     amount   |-> get_valid_amount(m)]
    /\ UNCHANGED <<transactions_file, today>>

-----------------------------------------------------------------------------
(* list_transactions, display_balance, daily_financial_check *)

\* datetime.strptime(t.date, "%Y-%m-%d") as a number that orders the dates
date_key(date) == date.y * 10000 + date.m * 100 + date.d

RECURSIVE inserted_by_date(_, _)
\* t put behind every transaction that is not older than it
inserted_by_date(sorted, t) ==
    IF sorted = <<>> THEN <<t>>
    ELSE IF date_key(Head(sorted).date) >= date_key(t.date)
         THEN <<Head(sorted)>> \o inserted_by_date(Tail(sorted), t)
         ELSE <<t>> \o sorted

RECURSIVE sorted_newest_first(_)
\* transactions.sort(key=date, reverse=True): newest first, transactions of
\* one date in the order they had
sorted_newest_first(transactions) ==
    IF transactions = <<>> THEN <<>>
    ELSE inserted_by_date(
             sorted_newest_first(SubSeq(transactions, 1, Len(transactions) - 1)),
             transactions[Len(transactions)])

filter_choices == {"All", "Last 7 Days", "Only Expenses", "Only Income"}

\* (today - transaction_date).days > 7 excludes; today carries the time of
\* day, so the days are whole days since the date
filter_includes(t, filter_choice, td) ==
    CASE filter_choice = "Last 7 Days" ->
             date_key(t.date) >= LET from == minus_days(td, 7)
                                 IN  from.year * 10000 + from.month * 100
                                     + from.day
      [] filter_choice = "Only Expenses" -> t.type = "expense"
      [] filter_choice = "Only Income"   -> t.type = "income"
      [] OTHER                           -> TRUE

\* the table and its footer: every row that is no expense counts as income
transactions_table(transactions, filter_choice, td) ==
    LET filtered == SelectSeq(sorted_newest_first(transactions),
                              LAMBDA t : filter_includes(t, filter_choice, td))
        total_expense == sum_amounts(SelectSeq(filtered, is_expense))
        total_income  == sum_amounts(SelectSeq(filtered,
                                               LAMBDA t : ~is_expense(t)))
    IN  IF filtered = <<>>
        THEN [op |-> "list_transactions", shown |-> FALSE]
        ELSE [op            |-> "list_transactions",
              shown         |-> TRUE,
              rows          |-> filtered,
              total_income  |-> total_income,
              total_expense |-> total_expense,
              total_balance |-> total_income - total_expense]

\* list_transactions with the sorted list written back to the ledger
list_transactions_saving_sorted(choices) ==
    LET transactions == load_transactions(transactions_file)
    IN  /\ \E filter_choice \in choices :
              out' = IF transactions = <<>>
                     THEN [op |-> "list_transactions", shown |-> FALSE]
                     ELSE transactions_table(transactions, filter_choice, today)
        /\ transactions_file' = sorted_newest_first(transactions)
        /\ UNCHANGED <<budgets_file, today>>

list_transactions(choices) ==
    LET transactions == load_transactions(transactions_file)
    IN  /\ \E filter_choice \in choices :
              out' = IF transactions = <<>>
                     THEN [op |-> "list_transactions", shown |-> FALSE]
                     ELSE transactions_table(transactions, filter_choice, today)
        /\ UNCHANGED <<transactions_file, budgets_file, today>>

\* the sums of the lines whose date starts with the current month: every
\* line that is no income counts as an expense
display_balance ==
    LET transactions == load_transactions(transactions_file)
        of_month == SelectSeq(transactions,
                              LAMBDA t : date_startswith_month(t.date, today))
        monthly_income  == sum_amounts(SelectSeq(of_month, is_income))
        monthly_expense == sum_amounts(SelectSeq(of_month,
                                                 LAMBDA t : ~is_income(t)))
    IN  /\ out' = IF transactions = <<>>
                  THEN [op |-> "display_balance", shown |-> FALSE]
                  ELSE [op              |-> "display_balance",
                        shown           |-> TRUE,
                        monthly_income  |-> monthly_income,
                        monthly_expense |-> monthly_expense,
                        monthly_balance |-> monthly_income - monthly_expense]
        /\ UNCHANGED <<transactions_file, budgets_file, today>>

\* t.date == today_str: the date text as strftime writes it
date_is_today(date, td) ==
    /\ date.y = td.year
    /\ date.m = td.month
    /\ date.d = td.day
    /\ date.mm

\* today's spending, the daily budget monthly_budget / days of the month
\* (kept as the fraction), whether today's spending is within it, and the
\* alerts of get_spending_alerts
daily_financial_check ==
    LET all_transactions == load_transactions(transactions_file)
        all_budgets      == load_budgets(budgets_file)
        todays_spending  ==
            sum_amounts(SelectSeq(all_transactions,
                LAMBDA t : date_is_today(t.date, today) /\ is_expense(t)))
        monthly_budget   == sum_amounts(all_budgets)
        days             == days_in_month(today.year, today.month)
    IN  /\ out' = [op              |-> "daily_financial_check",
                   todays_spending |-> todays_spending,
                   budget_set      |-> all_budgets # <<>>,
                   daily_budget    |-> [num |-> monthly_budget, den |-> days],
                   within_budget   |-> monthly_budget >= todays_spending * days,
                   alerts          |-> spending_alerts(all_budgets,
                                                       all_transactions, today)]
        /\ UNCHANGED <<transactions_file, budgets_file, today>>

-----------------------------------------------------------------------------
(* The divisions of the analysis operations: what each divides by *)

\* spent / budget.amount * 100 if budget.amount > 0 else 0, once per budget
utilization_divisors(budgets) ==
    {budgets[i].amount : i \in {j \in DOMAIN budgets : budgets[j].amount > 0}}

\* total_spent_amount / total_budget_amount * 100 if total_budget_amount > 0
overall_utilization_divisors(budgets) ==
    IF sum_amounts(budgets) > 0 THEN {sum_amounts(budgets)} ELSE {}

\* generate_pie_chart_ascii returns before it divides when the data is empty
\* or its total is 0
pie_chart_divisors(data) ==
    IF DOMAIN data = {} \/ sum_values(data) = 0 THEN {} ELSE {sum_values(data)}

\* total / days_in_month_so_far, the day of the month, when the month has a
\* transaction
average_daily_divisors(current_month_transactions, td) ==
    IF current_month_transactions # <<>> THEN {td.day} ELSE {}

\* a comparison that divides by last month's total whatever it is
comparison_divisors_unguarded(previous) == {previous}

\* (current - previous) / previous * 100 under `if previous > 0`
comparison_divisors(previous) == IF previous > 0 THEN {previous} ELSE {}

\* monthly_savings / total_income * 100 under `total_income > 0`
savings_rate_divisors(total_income) ==
    IF total_income > 0 THEN {total_income} ELSE {}

\* monthly_budget / days_in_month.day under `if all_budgets`
daily_budget_divisors(budgets, td) ==
    IF budgets # <<>> THEN {days_in_month(td.year, td.month)} ELSE {}

\* the operations of the menu that analyse and write nothing
analysis_operations ==
    {"view_budgets", "spending_analysis", "income_analysis",
     "savings_analysis", "financial_health_score", "generate_monthly_report",
     "get_spending_alerts", "daily_financial_check", "smart_recommendations"}

\* the numbers the operation divides by on these budgets and transactions
divisors_of(operation, budgets, transactions, td) ==
    LET current == filter_transactions_by_month(transactions, td.year, td.month)
        last    == month_transactions(transactions, last_month_date(td))
    IN  CASE operation = "view_budgets" ->
                 IF budgets = <<>> THEN {}
                 ELSE utilization_divisors(budgets)
                      \cup overall_utilization_divisors(budgets)
          [] operation = "spending_analysis" ->
                 IF transactions = <<>> THEN {}
                 ELSE pie_chart_divisors(get_monthly_spending_by_category(current))
                      \cup average_daily_divisors(current, td)
                      \cup comparison_divisors(get_total_spending(last))
          [] operation = "income_analysis" ->
                 IF transactions = <<>> THEN {}
                 ELSE comparison_divisors(get_total_income(last))
          [] operation = "savings_analysis" ->
                 IF transactions = <<>> THEN {}
                 ELSE savings_rate_divisors(get_total_income(current))
          [] operation = "financial_health_score" ->
                 IF transactions = <<>> THEN {}
                 ELSE savings_rate_divisors(get_total_income(current))
                      \cup (IF budgets # <<>> THEN {2} ELSE {})
          [] operation = "generate_monthly_report" ->
                 IF transactions = <<>> /\ budgets = <<>> THEN {}
                 ELSE pie_chart_divisors(get_monthly_spending_by_category(current))
                      \cup savings_rate_divisors(get_total_income(current))
                      \cup comparison_divisors(get_total_spending(last))
                      \cup comparison_divisors(get_total_income(last))
          [] operation = "get_spending_alerts" ->
                 IF budgets = <<>> THEN {} ELSE utilization_divisors(budgets)
          [] operation = "daily_financial_check" ->
                 daily_budget_divisors(budgets, td)
                 \cup (IF budgets = <<>> THEN {}
                       ELSE utilization_divisors(budgets))
          [] operation = "smart_recommendations" ->
                 savings_rate_divisors(get_total_income(current))
          [] OTHER -> {}

\* view_budgets is the one analysis that parses no date
parses_dates(operation) == operation # "view_budgets"

\* the operation ends in ZeroDivisionError, or in the ValueError of strptime
operation_raises(operation, budgets, transactions, td) ==
    \/ 0 \in divisors_of(operation, budgets, transactions, td)
    \/ /\ parses_dates(operation)
       /\ transactions # <<>>
       /\ filter_raises(transactions)

-----------------------------------------------------------------------------
(* The dashboard's store (utils.py) and the data management operations *)

\* the line "Date,Type,Category,Amount,Description" ("Category,Budget" in
\* the budget file)
header_line == [layout |-> "header"]

\* a file that is missing or empty is given its header line
ensure_database_files_exist(file) ==
    IF file = <<>> THEN <<header_line>> ELSE file

\* Series.str.title()
title(type) ==
    CASE type = "expense" -> "Expense"
      [] type = "income"  -> "Income"
      [] OTHER            -> type

\* pd.read_csv(..., on_bad_lines='skip') under the header's five columns: a
\* console line with a comma in its description has six fields and is
\* skipped; the Date of a JSON line or of a second header is no date, and the
\* row is dropped
row_is_kept(line) ==
    CASE layout(line) = "console"   -> ~HasComma(line.description)
                                       /\ strptime_accepts(line.date)
      [] layout(line) = "dashboard" -> TRUE
      [] OTHER                      -> FALSE

\* the row of the DataFrame: the fields of a console line are taken in the
\* header's order, so its description is read as the Amount (0 unless it is
\* a number) and its amount as the Description; Type is put in title case
row_of_line(line) ==
    IF layout(line) = "console"
    THEN [layout      |-> "dashboard",
          date        |-> [line.date EXCEPT !.mm = TRUE],
          type        |-> title(line.type),
          category    |-> line.category,
          amount      |-> IF IsIntegerText(line.description)
                          THEN int_of_text(line.description) ELSE 0,
          description |-> ToString(line.amount)]
    ELSE line

\* read_csv takes the first line of the file for the header whatever it
\* holds; when it is a record, no column has an expected name, reindex leaves
\* every Date empty and every row is dropped
_load_transactions_from_file(file) ==
    LET lines == ensure_database_files_exist(file)
    IN  IF layout(Head(lines)) # "header"
        THEN <<>>
        ELSE LET kept == SelectSeq(Tail(lines), row_is_kept)
             IN  [i \in DOMAIN kept |-> row_of_line(kept[i])]

\* DataFrame.to_csv(TRANSACTIONS_FILE, index=False): the whole file is
\* written again, header first
to_csv(rows) == <<header_line>> \o rows

\* utils.save_transaction on the DataFrame the session loaded from the file
save_transaction_from_dashboard(file, row) ==
    to_csv(Append(_load_transactions_from_file(file), row))

\* the number of records a file holds
records_in(file) == Len(SelectSeq(file, LAMBDA line : layout(line) # "header"))

\* the dashboard's form "Add New Transaction", submitted in a session that
\* has just loaded the two files
transactions_page(amounts, categories, descriptions) ==
    /\ records_in(transactions_file) < MaxTx
    /\ \E type \in {"Expense", "Income"}, m \in amounts,
          category \in categories, description \in descriptions :
          /\ number_input_accepts(m)
          /\ transactions_file' =
                 save_transaction_from_dashboard(transactions_file,
                     [layout      |-> "dashboard",
                      date        |-> [y |-> today.year, m |-> today.month,
                                        d |-> today.day, mm |-> TRUE],
                      type        |-> type,
                      category    |-> category,
                      amount      |-> truncate_to_paisa(m),
                      description |-> description])
    /\ budgets_file' = ensure_database_files_exist(budgets_file)
    /\ out' = [op |-> "transactions_page"]
    /\ UNCHANGED today

\* pd.read_csv(BUDGETS_FILE) takes the first line for the header; when it is
\* a budget there is no column "Budget", the KeyError is caught and the
\* DataFrame is empty
_load_budgets_from_file(file) ==
    LET lines == ensure_database_files_exist(file)
    IN  IF layout(Head(lines)) # "header"
        THEN <<>>
        ELSE SelectSeq(Tail(lines), budget_line_parses)

\* the Budget of every row of the category is set; without one a row is added
save_budget(budgets_df, category, budget_amount) ==
    IF \E i \in DOMAIN budgets_df : budgets_df[i].category = category
    THEN [i \in DOMAIN budgets_df |->
             IF budgets_df[i].category = category
             THEN [category |-> category, amount |-> budget_amount]
             ELSE budgets_df[i]]
    ELSE Append(budgets_df, [category |-> category, amount |-> budget_amount])

\* the dashboard's form "Set Monthly Budget", submitted in a session that has
\* just loaded the two files
budgets_page(amounts) ==
    /\ \E category \in EXPENSE_CATEGORIES \cup INCOME_SOURCES, m \in amounts :
          /\ number_input_accepts(m)
          /\ budgets_file' =
                 to_csv(save_budget(_load_budgets_from_file(budgets_file),
                                    category, truncate_to_paisa(m)))
          /\ out' = [op       |-> "budgets_page",
                     category |-> category,
                     amount   |-> truncate_to_paisa(m)]
    /\ transactions_file' = ensure_database_files_exist(transactions_file)
    /\ UNCHANGED today

\* json.loads(line) of every line of the ledger: any line that is no JSON
\* object raises
_get_transactions_raises(file) ==
    \E i \in DOMAIN file : layout(file[i]) # "json"

signature(t) == <<t.date, t.description, t.amount>>

\* the rows of the CSV file that the ledger does not hold yet, converted:
\* amount = int(float(text) * 100), date = today when the row has none
unique_new_transactions(file, rows, td) ==
    LET validated == [i \in DOMAIN rows |->
                         [layout      |-> "json",
                          date        |-> [y |-> td.year, m |-> td.month,
                                            d |-> td.day, mm |-> TRUE],
                          type        |-> rows[i].type,
                          category    |-> rows[i].category,
                          description |-> rows[i].description,
                          amount      |-> truncate_to_paisa(rows[i].amount)]]
        existing_signatures == {signature(file[i]) : i \in DOMAIN file}
    IN  SelectSeq(validated,
                  LAMBDA t : signature(t) \notin existing_signatures)

\* import_transactions_csv with the import confirmed: nothing is written
\* when the ledger cannot be read as JSON lines or no row is new
import_transactions_csv(files) ==
    /\ Len(transactions_file) < MaxTx
    /\ \E rows \in files :
          LET new == IF _get_transactions_raises(transactions_file)
                     THEN <<>>
                     ELSE unique_new_transactions(transactions_file, rows,
                                                  today)
          IN  /\ transactions_file' = transactions_file \o new
              /\ out' = [op |-> "import_transactions_csv",
                         imported |-> Len(new)]
    /\ UNCHANGED <<budgets_file, today>>

\* a line validate_data finds no error in: a JSON object with the required
\* fields, an integer amount and a date strptime accepts
transaction_line_is_valid(line) ==
    layout(line) = "json" /\ strptime_accepts(line.date)

\* budgets are never written as JSON: json.loads fails on every line
budget_line_is_valid(line) == FALSE

\* the file after the check: with an error found and the removal confirmed
\* it is written again with the valid lines only
valid_lines(file, valid, confirmed) ==
    IF confirmed /\ valid # file THEN valid ELSE file

validate_data ==
    /\ \E confirmed_transactions \in BOOLEAN, confirmed_budgets \in BOOLEAN :
          /\ transactions_file' =
                 valid_lines(transactions_file,
                     SelectSeq(transactions_file, transaction_line_is_valid),
                     confirmed_transactions)
          /\ budgets_file' =
                 valid_lines(budgets_file,
                     SelectSeq(budgets_file, budget_line_is_valid),
                     confirmed_budgets)
          /\ out' = [op                     |-> "validate_data",
                     confirmed_transactions |-> confirmed_transactions,
                     confirmed_budgets      |-> confirmed_budgets]
    /\ UNCHANGED today

-----------------------------------------------------------------------------
(* Specifications *)

Init ==
    /\ transactions_file = <<>>
    /\ budgets_file = <<>>
    /\ out = [op |-> "menu"]

\* what is typed in the runs on budgets and alerts: 0.00 is refused,
\* 0.03, 0.04 and 0.07 are 3, 4 and 7 paisa
BudgetRunExpenses == {0, 30, 40, 70}

\* 0.15 is 15 paisa of income: an expense of 3 paisa is exactly 20% of it,
\* one of 4 paisa is one paisa more
BudgetRunIncomes == {150}

\* 0.004 rounds to a budget of 0 paisa, 0.10 is 10 paisa
BudgetRunBudgets == {4, 100}

\* a month written with one digit, and one written with two
BudgetRunClock == {[year |-> 2026, month |-> 3, day |-> 15],
                   [year |-> 2026, month |-> 11, day |-> 4]}

InitBudgets == Init /\ today \in BudgetRunClock

NextBudgets ==
    \/ add_expense(BudgetRunExpenses, {"lunch"}, date_texts(today))
    \/ add_income(BudgetRunIncomes, {"Other"}, {"pay"}, date_texts(today))
    \/ set_budget(BudgetRunBudgets)
    \/ view_budgets
    \/ get_spending_alerts

SpecBudgets == InitBudgets /\ [][NextBudgets]_vars

\* what is typed in the runs on the health score: 1000.00 of income against
\* expenses that put the savings rate at 30%, 20%, 10%, 5%, 0% and -10%
HealthRunIncomes == {1000000}

HealthRunExpenses == {700000, 800000, 900000, 950000, 1000000, 1100000}

\* a budget of 800.00
HealthRunBudgets == {800000}

HealthRunClock == {[year |-> 2026, month |-> 3, day |-> 15],
                   [year |-> 2026, month |-> 11, day |-> 4]}

InitHealth == Init /\ today \in HealthRunClock

NextHealth ==
    \/ add_expense(HealthRunExpenses, {"rent"}, date_texts(today))
    \/ add_income(HealthRunIncomes, {"Salary"}, {"pay"}, date_texts(today))
    \/ set_budget(HealthRunBudgets)
    \/ financial_health_score

SpecHealth == InitHealth /\ [][NextHealth]_vars

\* what is typed in the runs on the recommendations: 1.00 of income against
\* expenses of 0.70, 0.90 (a savings rate of exactly 10%) and 0.95
AssistantRunIncomes == {1000}

AssistantRunExpenses == {700, 900, 950}

\* a budget of 0.80
AssistantRunBudgets == {800}

AssistantRunClock == {[year |-> 2026, month |-> 3, day |-> 15],
                      [year |-> 2026, month |-> 11, day |-> 4]}

InitAssistant == Init /\ today \in AssistantRunClock

NextAssistant ==
    \/ add_expense(AssistantRunExpenses, {"rent"}, date_texts(today))
    \/ add_income(AssistantRunIncomes, {"Salary"}, {"pay"}, date_texts(today))
    \/ set_budget(AssistantRunBudgets)
    \/ smart_recommendations

SpecAssistant == InitAssistant /\ [][NextAssistant]_vars

\* the months the analyses look at: the three of the trends, and last month
AnalyticsRunMonths(td) ==
    {[y |-> trend_months(td)[k].year, m |-> trend_months(td)[k].month] : k \in 1..3}
    \cup {[y |-> last_month_date(td).year, m |-> last_month_date(td).month]}

\* incomes of 1.00, 1.10 (10% more), 1.11 and 0.90 (10% less)
AnalyticsRunIncomes ==
    {[category |-> "Salary", amount |-> 100], [category |-> "Salary", amount |-> 110],
     [category |-> "Other", amount |-> 111], [category |-> "Other", amount |-> 90]}

AnalyticsRunExpenses ==
    {[category |-> "Food", amount |-> 50], [category |-> "Other", amount |-> 60]}

\* the lines add_income and add_expense write for the 15th of those months
AnalyticsRunLines(td) ==
    {[date        |-> [y |-> month.y, m |-> month.m, d |-> 15, mm |-> TRUE],
      type        |-> "income",
      category    |-> entry.category,
      description |-> "pay",
      amount      |-> entry.amount] :
        month \in AnalyticsRunMonths(td), entry \in AnalyticsRunIncomes}
    \cup
    {[date        |-> [y |-> month.y, m |-> month.m, d |-> 15, mm |-> TRUE],
      type        |-> "expense",
      category    |-> entry.category,
      description |-> "rent",
      amount      |-> entry.amount] :
        month \in AnalyticsRunMonths(td), entry \in AnalyticsRunExpenses}

\* entered month after month
in_date_order(lines) ==
    \A i \in DOMAIN lines : \A j \in DOMAIN lines :
        i < j => \/ lines[i].date.y < lines[j].date.y
                 \/ /\ lines[i].date.y = lines[j].date.y
                    /\ lines[i].date.m <= lines[j].date.m

\* the ledgers earlier sessions left behind: up to MaxLedger lines
AnalyticsRunLedgers(td) ==
    UNION {{lines \in [1..n -> AnalyticsRunLines(td)] : in_date_order(lines)} :
              n \in 0..MaxLedger}

AnalyticsRunClock == {[year |-> 2026, month |-> 3, day |-> 15],
                      [year |-> 2026, month |-> 11, day |-> 4]}

InitAnalytics ==
    /\ today \in AnalyticsRunClock
    /\ transactions_file \in AnalyticsRunLedgers(today)
    /\ budgets_file = <<>>
    /\ out = [op |-> "menu"]

NextAnalytics ==
    \/ spending_analysis
    \/ income_analysis
    \/ savings_analysis
    \/ generate_monthly_report

SpecAnalytics == InitAnalytics /\ [][NextAnalytics]_vars

\* date texts found in a ledger file: "2026-03-15", "2026-3-05",
\* "2026-02-28", "2025-03-15", and two that are no dates, "2026-13-01" and
\* "2026-02-30"
FilterRunDates ==
    {[y |-> 2026, m |-> 3, d |-> 15, mm |-> TRUE],
     [y |-> 2026, m |-> 3, d |-> 5, mm |-> FALSE],
     [y |-> 2026, m |-> 2, d |-> 28, mm |-> TRUE],
     [y |-> 2025, m |-> 3, d |-> 15, mm |-> TRUE],
     [y |-> 2026, m |-> 13, d |-> 1, mm |-> TRUE],
     [y |-> 2026, m |-> 2, d |-> 30, mm |-> TRUE]}

FilterRunLines ==
    {[date        |-> date,
      type        |-> "expense",
      category    |-> "Food",
      description |-> "lunch",
      amount      |-> 50] : date \in FilterRunDates}

FilterRunLedgers == UNION {[1..n -> FilterRunLines] : n \in 0..MaxLedger}

FilterRunYears == {2025, 2026}

FilterRunMonths == {2, 3}

InitFilter ==
    /\ today = [year |-> 2026, month |-> 3, day |-> 15]
    /\ transactions_file \in FilterRunLedgers
    /\ budgets_file = <<>>
    /\ out = [op |-> "menu"]

NextFilter == call_filter_transactions_by_month(FilterRunYears, FilterRunMonths)

SpecFilter == InitFilter /\ [][NextFilter]_vars

InitMoney ==
    /\ today = [year |-> 2026, month |-> 3, day |-> 15]
    /\ transactions_file = <<>>
    /\ budgets_file = <<>>
    /\ out \in {[op |-> "amount", amount |-> m] : m \in 0..MaxMilli}
              \cup {[op |-> "stored", paisa |-> s] : s \in 0..MaxPaisa}

NextMoney ==
    \/ convert_at_prompt
    \/ convert_in_form({"transaction_form", "budget_form"})
    \/ convert_on_import
    \/ show_and_convert_back

SpecMoney == InitMoney /\ [][NextMoney]_vars

\* what the writers of the ledger are given: 0.05 is 5 paisa
LedgerRunAmounts == {50}

\* the descriptions typed at the console, one of them with a comma
LedgerRunDescriptions == {"lunch", "tea, cake"}

\* the descriptions typed in the dashboard's form, one of them a number
LedgerRunFormDescriptions == {"lunch", "5"}

\* the date the prompt and the form propose
LedgerRunDates(td) ==
    {[y |-> td.year, m |-> td.month, d |-> td.day, mm |-> TRUE]}

\* CSV files of one row with the columns amount, description, category and
\* type: amounts -0.05 and 0.05
LedgerRunImports ==
    {<<[amount |-> m, description |-> "refund", category |-> "Food",
        type |-> "expense"]>> : m \in {-50, 50}}

InitLedger == Init /\ today = [year |-> 2026, month |-> 3, day |-> 15]

NextLedger ==
    \/ add_expense(LedgerRunAmounts, LedgerRunDescriptions,
                   LedgerRunDates(today))
    \/ add_income(LedgerRunAmounts, {"Salary"}, {"pay"}, LedgerRunDates(today))
    \/ transactions_page(LedgerRunAmounts, {"Food"}, LedgerRunFormDescriptions)
    \/ import_transactions_csv(LedgerRunImports)
    \/ validate_data

SpecLedger == InitLedger /\ [][NextLedger]_vars

\* the budget amounts typed at the console and in the dashboard's form:
\* 0.05 and 0.10
BudgetStoreRunAmounts == {50, 100}

InitBudgetStore == Init /\ today = [year |-> 2026, month |-> 3, day |-> 15]

NextBudgetStore ==
    \/ set_budget(BudgetStoreRunAmounts)
    \/ budgets_page(BudgetStoreRunAmounts)

SpecBudgetStore == InitBudgetStore /\ [][NextBudgetStore]_vars

\* 0.004 is accepted and rounds to an expense of 0 paisa, 0.07 is 7 paisa;
\* 0.15 is an income of 15 paisa
ReadOnlyRunExpenses == {4, 70}

ReadOnlyRunIncomes == {150}

\* 0.004 rounds to a budget of 0 paisa, 0.10 is 10 paisa
ReadOnlyRunBudgets == {4, 100}

\* today, and the same day of last month
ReadOnlyRunDates(td) ==
    {[y |-> td.year, m |-> td.month, d |-> td.day, mm |-> TRUE],
     [y |-> last_month_date(td).year, m |-> last_month_date(td).month,
      d |-> td.day, mm |-> TRUE]}

InitReadOnly == Init /\ today = [year |-> 2026, month |-> 3, day |-> 15]

NextReadOnly ==
    \/ add_expense(ReadOnlyRunExpenses, {"lunch"}, LedgerRunDates(today))
    \/ add_income(ReadOnlyRunIncomes, {"Salary"}, {"pay"},
                  ReadOnlyRunDates(today))
    \/ set_budget(ReadOnlyRunBudgets)
    \/ view_budgets
    \/ spending_analysis
    \/ income_analysis
    \/ savings_analysis
    \/ financial_health_score
    \/ generate_monthly_report
    \/ get_spending_alerts
    \/ daily_financial_check
    \/ smart_recommendations
    \/ list_transactions(filter_choices)
    \/ display_balance

SpecReadOnly == InitReadOnly /\ [][NextReadOnly]_vars

\* expenses of 3 and 7 paisa: 7 is 70% of a budget of 10 paisa, both
\* together are the whole of it
AgreementRunExpenses == {30, 70}

\* 0.004 rounds to a budget of 0 paisa, 0.10 is 10 paisa
AgreementRunBudgets == {4, 100}

InitAgreement == Init /\ today = [year |-> 2026, month |-> 3, day |-> 15]

NextAgreement ==
    \/ add_expense(AgreementRunExpenses, {"lunch"}, LedgerRunDates(today))
    \/ set_budget(AgreementRunBudgets)
    \/ view_budgets
    \/ generate_monthly_report
    \/ get_spending_alerts
    \/ financial_health_score
    \/ smart_recommendations

SpecAgreement == InitAgreement /\ [][NextAgreement]_vars

\* the dates the periods are computed for: every day of three years, one of
\* them a leap year
PeriodRunYears == {2026, 2027, 2028}

InitPeriods ==
    /\ Init
    /\ today \in {[year |-> y, month |-> m, day |-> d] :
                     y \in PeriodRunYears, m \in 1..12, d \in 1..31}
    /\ today.day <= days_in_month(today.year, today.month)

NextPeriods == trend_periods

SpecPeriods == InitPeriods /\ [][NextPeriods]_vars

-----------------------------------------------------------------------------
(* Properties of the budget overview and the alerts (SpecBudgets) *)

ViewShown == out.op = "view_budgets" /\ out.shown

AlertsShown == out.op = "get_spending_alerts"

\* the expenses of a category dated in today's calendar month, summed
CalendarSpend(category) ==
    sum_amounts(SelectSeq(load_transactions(transactions_file),
        LAMBDA t : /\ t.type = "expense"
                   /\ t.category = category
                   /\ t.date.y = today.year
                   /\ t.date.m = today.month))

RECURSIVE CalendarSpendTotal(_)
CalendarSpendTotal(budgets) ==
    IF budgets = <<>> THEN 0
    ELSE CalendarSpend(Head(budgets).category) + CalendarSpendTotal(Tail(budgets))

\* the figure the operations accumulate for a budget's category
SpendFigure(category) ==
    category_spending(load_budgets(budgets_file),
                      load_transactions(transactions_file), today)[category]

AlertCount(kind, category) ==
    Cardinality({j \in DOMAIN out.alerts :
                    out.alerts[j].kind = kind /\ out.alerts[j].category = category})

\* C1: the overview has one row per budget, and a row with budget amount a > 0
\* and spend s >= 0 shows OVER iff s*100 >= a*100, WARNING iff
\* 70*a <= s*100 < 100*a, and OK otherwise: exactly one of the three.
C1_StatusThresholds ==
    ViewShown =>
        /\ Len(out.rows) = Len(budgets_file)
        /\ \A i \in DOMAIN out.rows :
               LET a == out.rows[i].budget
                   s == out.rows[i].spent
                   status == out.rows[i].status
               IN  /\ out.rows[i].category = budgets_file[i].category
                   /\ a = budgets_file[i].amount
                   /\ a > 0 =>
                        /\ s >= 0
                        /\ status \in {"OVER", "WARNING", "OK"}
                        /\ (status = "OVER") <=> (s * 100 >= a * 100)
                        /\ (status = "WARNING") <=>
                               (s * 100 >= 70 * a /\ s * 100 < 100 * a)
                        /\ (status = "OK") <=> (s * 100 < 70 * a)

\* a budget of 10 paisa with 7 spent, exactly 70%, is shown as WARNING
C1_SpendAtSeventyPercent ==
    /\ ViewShown
    /\ \E i \in DOMAIN out.rows :
           /\ out.rows[i].budget = 10
           /\ out.rows[i].spent = 7
           /\ out.rows[i].status = "WARNING"

\* C2: a budget of amount 0 is shown at 0% utilization with status OK, and
\* gets neither an approaching nor an exceeded alert, whatever was spent.
C2_ZeroBudgetAtZeroPercent ==
    /\ ViewShown =>
           \A i \in DOMAIN out.rows :
               budgets_file[i].amount = 0 =>
                   /\ out.rows[i].utilization.num = 0
                   /\ out.rows[i].status = "OK"
    /\ AlertsShown =>
           \A i \in DOMAIN budgets_file :
               budgets_file[i].amount = 0 =>
                   /\ AlertCount("approaching", budgets_file[i].category) = 0
                   /\ AlertCount("exceeded", budgets_file[i].category) = 0

\* a budget of 0 with money spent in its category this month, shown as OK
C2_ZeroBudgetWithSpend ==
    /\ ViewShown
    /\ \E i \in DOMAIN out.rows :
           /\ out.rows[i].budget = 0
           /\ out.rows[i].spent > 0
           /\ CalendarSpend(out.rows[i].category) > 0
           /\ out.rows[i].status = "OK"

\* C3: each row's spend is the sum of this calendar month's expenses in the
\* budget's category, its remaining is amount - spend, and the overall
\* utilization is sum(spend) / sum(amount) * 100, or 0 when sum(amount) is 0.
C3_SpendIsCalendarMonthSpend ==
    ViewShown =>
        LET spend_total == CalendarSpendTotal(budgets_file)
            budget_total == sum_amounts(budgets_file)
        IN  /\ \A i \in DOMAIN out.rows :
                   /\ out.rows[i].spent = CalendarSpend(budgets_file[i].category)
                   /\ out.rows[i].remaining =
                          budgets_file[i].amount
                          - CalendarSpend(budgets_file[i].category)
            /\ IF budget_total = 0
               THEN out.overall.num = 0
               ELSE out.overall.num * budget_total
                        = spend_total * 100 * out.overall.den

-----------------------------------------------------------------------------
(* Properties of the financial health score (SpecHealth) *)

HealthShown == out.op = "financial_health_score"

HealthComputed == HealthShown /\ out.computed

\* the amounts of one type dated in today's calendar month, summed
MonthTotal(type) ==
    sum_amounts(SelectSeq(load_transactions(transactions_file),
        LAMBDA t : /\ t.type = type
                   /\ t.date.y = today.year
                   /\ t.date.m = today.month))

MonthIncome == MonthTotal("income")

MonthExpense == MonthTotal("expense")

\* the budgets whose spend figure is strictly above their amount
OverCount ==
    Cardinality({i \in DOMAIN budgets_file :
                    SpendFigure(budgets_file[i].category) > budgets_file[i].amount})

\* C4: with this month's income 0 the savings-rate factor is N/A and adds 0;
\* otherwise, with rate = (income - expense)/income*100, it is 30 for
\* rate >= 20, 20 for 10 <= rate < 20, 10 for 0 < rate < 10, 0 for rate <= 0.
C4_SavingsRateBands ==
    HealthComputed =>
        LET income == MonthIncome
            saved == MonthIncome - MonthExpense
        IN  IF income = 0
            THEN out.savings_na /\ out.savings_score = 0
            ELSE /\ ~out.savings_na
                 /\ out.savings_score =
                        (IF saved * 100 >= 20 * income THEN 30
                         ELSE IF saved * 100 >= 10 * income THEN 20
                         ELSE IF saved > 0 THEN 10
                         ELSE 0)

\* income 1000.00, expenses 800.00: a rate of exactly 20% scores 30
C4_RateAtTwentyPercent ==
    /\ HealthComputed
    /\ MonthIncome = 100000
    /\ MonthExpense = 80000
    /\ out.savings_score = 30

C6_IncomeVsExpenseBands ==
    HealthComputed =>
        out.income_vs_expense_score =
            (IF MonthIncome = 0 THEN 0
             ELSE IF MonthIncome > MonthExpense THEN 25
             ELSE IF MonthIncome = MonthExpense THEN 15
             ELSE 5)

\* income 1000.00 and expenses 1000.00 score 15
C6_IncomeEqualsExpense ==
    /\ HealthComputed
    /\ MonthIncome = 100000
    /\ MonthExpense = 100000
    /\ out.income_vs_expense_score = 15

\* C7: the score is savings points (0 if N/A) + adherence points + income vs
\* expense points + 10, an integer in 0..100; income 100000, expense 70000
\* and one budget that is not exceeded give 30 + 25 + 25 + 10 = 90.
C7_ScoreIsSumOfFactors ==
    HealthComputed =>
        /\ out.score = (IF out.savings_na THEN 0 ELSE out.savings_score)
                       + out.budget_adherence_score
                       + out.income_vs_expense_score
                       + 10
        /\ out.debt_score = 10
        /\ out.score \in 0..100
        /\ ( /\ MonthIncome = 100000
             /\ MonthExpense = 70000
             /\ Len(budgets_file) = 1
             /\ CalendarSpend(budgets_file[1].category) <= budgets_file[1].amount )
           => out.score = 90

\* the ledger and budget of the example, scored 90
C7_ExampleScoresNinety ==
    /\ HealthComputed
    /\ MonthIncome = 100000
    /\ MonthExpense = 70000
    /\ Len(budgets_file) = 1
    /\ CalendarSpend(budgets_file[1].category) = 70000
    /\ out.savings_score = 30
    /\ out.budget_adherence_score = 25
    /\ out.income_vs_expense_score = 25
    /\ out.score = 90

\* C8: a computed score is read as excellent iff >= 80, good iff 60..79,
\* fair iff 40..59, needs attention iff < 40: one band per score.
C8_InterpretationBands ==
    HealthComputed =>
        /\ out.interpretation \in {"excellent", "good", "fair", "needs attention"}
        /\ (out.interpretation = "excellent") <=> (out.score >= 80)
        /\ (out.interpretation = "good") <=> (out.score >= 60 /\ out.score < 80)
        /\ (out.interpretation = "fair") <=> (out.score >= 40 /\ out.score < 60)
        /\ (out.interpretation = "needs attention") <=> (out.score < 40)

\* a score of exactly 80 is read as excellent
C8_ScoreOfEighty ==
    /\ HealthComputed
    /\ out.score = 80
    /\ out.interpretation = "excellent"

\* C9: with no transactions, no budgets (and so no income) the operation
\* reports that there is no data: it prints neither a score nor a band.
C9_NoDataWithoutTransactions ==
    ( /\ HealthShown
      /\ load_transactions(transactions_file) = <<>>
      /\ load_budgets(budgets_file) = <<>> )
    => /\ ~out.computed
       /\ DOMAIN out = {"op", "computed"}

\* the health score asked for on an empty ledger and no budgets
C9_AskedOnEmptyLedger ==
    /\ HealthShown
    /\ transactions_file = <<>>
    /\ budgets_file = <<>>
    /\ ~out.computed

-----------------------------------------------------------------------------
(* Properties of the large-transaction alert (SpecBudgets) *)

LargeAlerts == SelectSeq(out.alerts, LAMBDA a : a.kind = "large")

\* the expenses of today's calendar month above a fifth of its income
ExpensesAboveFifthOfIncome ==
    SelectSeq(load_transactions(transactions_file),
        LAMBDA t : /\ t.type = "expense"
                   /\ t.date.y = today.year
                   /\ t.date.m = today.month
                   /\ MonthIncome > 0
                   /\ t.amount * 5 > MonthIncome)

\* C11: the large-transaction alerts are, in ledger order, exactly the
\* expenses of the current month whose amount is strictly above 20% of the
\* month's income, when that income is positive: an expense of exactly 20%
\* gets none, with no income there is none, and income never gets one.
C11_LargeTransactionAlerts ==
    AlertsShown =>
        /\ Len(LargeAlerts) = Len(ExpensesAboveFifthOfIncome)
        /\ \A i \in DOMAIN LargeAlerts :
               /\ LargeAlerts[i].amount = ExpensesAboveFifthOfIncome[i].amount
               /\ LargeAlerts[i].category = ExpensesAboveFifthOfIncome[i].category
        /\ MonthIncome = 0 => LargeAlerts = <<>>

\* with 15 paisa of income this month, an expense of 4 paisa, one paisa
\* above 20%, got the alert
C11_OnePaisaAboveTwentyPercent ==
    /\ AlertsShown
    /\ MonthIncome = 15
    /\ Len(LargeAlerts) = 1
    /\ LargeAlerts[1].amount = 4

-----------------------------------------------------------------------------
(* Properties of the recommendations (SpecAssistant) *)

RecommendationsShown == out.op = "smart_recommendations"

Recommended(r) == \E i \in DOMAIN out.recommendations : out.recommendations[i] = r

\* some budget's spend figure is strictly above its amount
SomeBudgetOver == OverCount > 0

\* this month has income, and less than 10% of it is left after expenses
SavingsRateBelowTen ==
    MonthIncome > 0 /\ (MonthIncome - MonthExpense) * 100 < 10 * MonthIncome

-----------------------------------------------------------------------------
(* Properties of the analyses and the monthly report (SpecAnalytics) *)

SpendingAnalysed == out.op = "spending_analysis" /\ out.analysed

IncomeAnalysed == out.op = "income_analysis" /\ out.analysed

SavingsAnalysed == out.op = "savings_analysis" /\ out.analysed

ReportGenerated == out.op = "generate_monthly_report" /\ out.analysed

\* the categories of the transactions of one type dated in today's month
MonthCategories(type) ==
    LET transactions == load_transactions(transactions_file)
    IN  {transactions[i].category :
            i \in {j \in DOMAIN transactions :
                      /\ transactions[j].type = type
                      /\ transactions[j].date.y = today.year
                      /\ transactions[j].date.m = today.month}}

\* C13: the amounts of the spending-by-category mapping add up to the total
\* spending, those of the income-by-source mapping to the total income (both
\* 0 when the month has no transaction), and a category is a key of a mapping
\* only if a transaction of the month has it.
C13_GroupedTotalsAddUp ==
    /\ ReportGenerated =>
           /\ sum_values(out.spending_by_category) = out.total_spending
           /\ sum_values(out.income_by_source) = out.total_income
           /\ out.total_spending = MonthExpense
           /\ out.total_income = MonthIncome
           /\ DOMAIN out.spending_by_category = MonthCategories("expense")
           /\ DOMAIN out.income_by_source = MonthCategories("income")
    /\ SpendingAnalysed =>
           /\ out.current = MonthExpense
           /\ DOMAIN out.by_category = MonthCategories("expense")
    /\ IncomeAnalysed =>
           /\ out.current = MonthIncome
           /\ DOMAIN out.by_source = MonthCategories("income")

\* a month with two Food expenses of 50 and one Other expense of 60: the
\* report groups them as Food 100 and Other 60, 160 in total
C13_TwoExpensesOfOneCategory ==
    /\ ReportGenerated
    /\ DOMAIN out.spending_by_category = {"Food", "Other"}
    /\ out.spending_by_category["Food"] = 100
    /\ out.spending_by_category["Other"] = 60
    /\ out.total_spending = 160

\* C14: the trend that spending_analysis and savings_analysis print compares
\* the newest total, current, with the one before it, previous: UPWARD iff
\* current > previous, DOWNWARD iff current < previous, STABLE iff they are
\* equal.
C14_TrendDirection ==
    (SpendingAnalysed \/ SavingsAnalysed) =>
        LET current == out.totals[Len(out.totals)]
            previous == out.totals[Len(out.totals) - 1]
        IN  /\ current = (IF SpendingAnalysed THEN MonthExpense
                          ELSE MonthIncome - MonthExpense)
            /\ out.trend \in {"UPWARD", "DOWNWARD", "STABLE"}
            /\ (out.trend = "UPWARD") <=> (current > previous)
            /\ (out.trend = "DOWNWARD") <=> (current < previous)
            /\ (out.trend = "STABLE") <=> (current = previous)

\* 50 was spent in the period before and 50 in the current one: STABLE
C14_SameSpendingAsBefore ==
    /\ SpendingAnalysed
    /\ out.totals[2] = 50
    /\ out.totals[3] = 50
    /\ out.trend = "STABLE"

\* C15: in the month-over-month comparisons of spending_analysis,
\* income_analysis and generate_monthly_report the percent change is computed
\* only when the previous total is above 0; when it is 0 the operation
\* reports new activity if the current total is above 0 and no activity in
\* either month otherwise.
C15_ComparisonWithEmptyLastMonth ==
    LET conforms(comparison, current, previous) ==
            /\ comparison.divided <=> (previous > 0)
            /\ previous = 0 =>
                   comparison.outcome =
                       (IF current > 0 THEN "new_activity" ELSE "no_activity")
    IN  /\ (SpendingAnalysed \/ IncomeAnalysed) =>
               conforms(out.comparison, out.current, out.previous)
        /\ ReportGenerated =>
               /\ conforms(out.spending_trend, out.total_spending,
                           out.last_month_spending)
               /\ conforms(out.income_trend, out.total_income,
                           out.last_month_income)

\* C16: with the three income totals t0, t1, t2, oldest first,
\* income_analysis reports STABLE iff |t1 - t0| <= 0.1*t0 and
\* |t2 - t0| <= 0.1*t0, and FLUCTUATING otherwise; with t0 = 0 that is STABLE
\* iff t1 = t2 = 0.
C16_IncomeStability ==
    IncomeAnalysed =>
        LET t0 == out.totals[1]
            t1 == out.totals[2]
            t2 == out.totals[3]
            within(t) == IF t >= t0 THEN 10 * (t - t0) <= t0 ELSE 10 * (t0 - t) <= t0
        IN  /\ Len(out.totals) = 3
            /\ out.stability \in {"STABLE", "FLUCTUATING"}
            /\ (out.stability = "STABLE") <=> (within(t1) /\ within(t2))
            /\ t0 = 0 => ((out.stability = "STABLE") <=> (t1 = 0 /\ t2 = 0))

\* incomes of 100, then 110, then 90: both within 10% of the first, STABLE
C16_BothWithinTenPercent ==
    /\ IncomeAnalysed
    /\ out.totals = <<100, 110, 90>>
    /\ out.stability = "STABLE"

\* the months in which the ledger has income
IncomeMonths ==
    {<<t.date.y, t.date.m>> :
        t \in {l \in {transactions_file[i] : i \in DOMAIN transactions_file} :
                  l.type = "income"}}

\* C17: when the ledger has income data for fewer than three months,
\* income_analysis reports the separate outcome "not enough data" and
\* neither STABLE nor FLUCTUATING.
C17_FewerThanThreeMonthsIsNotEnough ==
    (IncomeAnalysed /\ Cardinality(IncomeMonths) < 3) =>
        out.stability = "NOT_ENOUGH_DATA"

-----------------------------------------------------------------------------
(* Properties of filter_transactions_by_month (SpecFilter) *)

FilterCalled == out.op = "filter_transactions_by_month"

\* the positions of the ledger whose date lies in the month asked for
InMonthAsked ==
    {i \in DOMAIN transactions_file :
        /\ transactions_file[i].date.y = out.year
        /\ transactions_file[i].date.m = out.month}

\* result picks exactly the positions in `wanted` of lines, in their order
IsSelection(result, lines, wanted) ==
    /\ Len(result) = Cardinality(wanted)
    /\ \E f \in [DOMAIN result -> wanted] :
           /\ \A p \in DOMAIN result : \A q \in DOMAIN result : p < q => f[p] < f[q]
           /\ \A p \in DOMAIN result : result[p] = lines[f[p]]

\* some line's date names a month or a day the calendar does not have
SomeDateInvalid ==
    \E i \in DOMAIN transactions_file :
        LET date == transactions_file[i].date
        IN  \/ date.m < 1
            \/ date.m > 12
            \/ date.d < 1
            \/ date.d > days_in_month(date.y, date.m)

FilterResultIsSelection ==
    FilterCalled =>
        IF SomeDateInvalid
        THEN out.raised
        ELSE /\ ~out.raised
             /\ IsSelection(out.result, transactions_file, InMonthAsked)

\* C18: filter_transactions_by_month returns exactly the transactions dated
\* in the year and month asked for, in their original order and number, and
\* leaves its input as it was; when a transaction's date is no valid date
\* the call fails with an error instead of leaving that transaction out.
C18_FilterByMonth ==
    /\ []FilterResultIsSelection
    /\ [][transactions_file' = transactions_file]_vars

\* a ledger with a line dated in March 2026 and a line whose date is not a
\* date: the call for March 2026 raised
C18_InvalidDateRaises ==
    /\ FilterCalled
    /\ out.year = 2026
    /\ out.month = 3
    /\ InMonthAsked # {}
    /\ SomeDateInvalid
    /\ out.raised

-----------------------------------------------------------------------------
(* Properties of the money conversions (SpecMoney) *)

ShownAndConvertedBack == out.op = "from_paisa"

Converted ==
    out.op \in {"get_valid_amount", "transaction_form", "budget_form",
                "import_transactions_csv"}

C20_RoundsHalfAwayFromZero ==
    Converted => out.paisa = (out.amount + 5) \div 10

-----------------------------------------------------------------------------
(* Properties of the ledger under its writers (SpecLedger) *)

Records == SelectSeq(transactions_file, LAMBDA line : layout(line) # "header")

\* C21: after every sequence of entry operations (add_expense, add_income,
\* the dashboard's form, import_transactions_csv) every transaction stored in
\* the ledger has amount >= 0.
C21_StoredAmountsNonNegative ==
    \A i \in DOMAIN Records : Records[i].amount >= 0

AddedAtConsole(o) == o.op \in {"add_expense", "add_income"}

\* C23: the console ledger is append-only under add_expense and add_income:
\* after each of them load_transactions returns every transaction recorded
\* before, with the same fields and in the same order, followed by the one
\* just added.
C23_AppendOnly ==
    [][AddedAtConsole(out') =>
          load_transactions(transactions_file') =
              Append(load_transactions(transactions_file),
                     transactions_file'[Len(transactions_file')])]_vars

\* the same date, kind (whatever its case), category, description and amount
SameFields(a, b) ==
    /\ a.date = b.date
    /\ title(a.type) = title(b.type)
    /\ a.category = b.category
    /\ a.description = b.description
    /\ a.amount = b.amount

LastLine(file) == file[Len(file)]

Holds(transactions, line) ==
    \E i \in DOMAIN transactions : SameFields(transactions[i], line)

\* C26: a transaction recorded through the dashboard is afterwards returned
\* by the console's load_transactions with the same date, kind, category,
\* description and amount, and a transaction recorded through the console is
\* afterwards among the dashboard's loaded transactions with the same fields.
C26_SharedPersistence ==
    [][/\ out'.op = "transactions_page" =>
              Holds(load_transactions(transactions_file'),
                    LastLine(transactions_file'))
       /\ AddedAtConsole(out') =>
              Holds(_load_transactions_from_file(transactions_file'),
                    LastLine(transactions_file'))]_vars

WrittenAtConsole(file) == \A i \in DOMAIN file : layout(file[i]) = "console"

StillHeld(before, after) ==
    \A i \in DOMAIN before : \E j \in DOMAIN after : after[j] = before[i]

\* C30: validate_data, run with the removal confirmed on a ledger written by
\* add_expense and add_income, deletes only corrupt records: every record
\* load_transactions accepts is still in the ledger afterwards, and every
\* budget load_budgets accepts is still in the budget store.
C30_RemovalKeepsWellFormedRecords ==
    [][(/\ out'.op = "validate_data"
        /\ WrittenAtConsole(transactions_file)
        /\ WrittenAtConsole(budgets_file))
       => /\ StillHeld(load_transactions(transactions_file),
                       load_transactions(transactions_file'))
          /\ StillHeld(load_budgets(budgets_file),
                       load_budgets(budgets_file'))]_vars

-----------------------------------------------------------------------------
(* Properties of the budget store under its writers (SpecBudgetStore) *)

\* the budgets the file holds, in file order
StoredBudgets(file) == SelectSeq(file, budget_line_parses)

BudgetsOf(budgets, category) ==
    SelectSeq(budgets, LAMBDA b : b.category = category)

BudgetsOfOthers(budgets, category) ==
    SelectSeq(budgets, LAMBDA b : b.category # category)

BudgetWasSet(o) == o.op \in {"set_budget", "budgets_page"}

\* the store after a budget was set: one budget for the category, with the
\* amount given, and every other budget as before, in the same order
SetLeaves(before, after, category, amount) ==
    /\ BudgetsOf(after, category) =
           <<[category |-> category, amount |-> amount]>>
    /\ BudgetsOfOthers(after, category) = BudgetsOfOthers(before, category)

\* C22: from an empty budget store, after any sequence of set_budget
\* operations of the console and of the dashboard the store holds at most
\* one budget per category, with the amount of the most recent set_budget
\* for it, and a set_budget leaves the budgets of all other categories and
\* their relative order unchanged.
C22_LastWriteWins ==
    [][BudgetWasSet(out') =>
          SetLeaves(StoredBudgets(budgets_file), StoredBudgets(budgets_file'),
                    out'.category, out'.amount)]_vars

\* the same for the steps in which the front end that sets the budget finds
\* the file as it writes it itself
C22_LastWriteWinsWithinOneFrontEnd ==
    [][(\/ out'.op = "set_budget"
        \/ /\ out'.op = "budgets_page"
           /\ (budgets_file = <<>> \/ layout(Head(budgets_file)) = "header"))
       => SetLeaves(StoredBudgets(budgets_file), StoredBudgets(budgets_file'),
                    out'.category, out'.amount)]_vars

-----------------------------------------------------------------------------
(* Properties of the operations that only read (SpecReadOnly) *)

read_only_operations ==
    analysis_operations \cup {"list_transactions", "display_balance"}

\* C24: every read-only operation (view_budgets, the three analyses,
\* financial_health_score, generate_monthly_report, get_spending_alerts,
\* daily_financial_check, smart_recommendations, list_transactions,
\* display_balance) leaves the ledger and the budgets unchanged.
C24_ReadOnlyOperationsWriteNothing ==
    [][out'.op \in read_only_operations =>
          /\ transactions_file' = transactions_file
          /\ budgets_file' = budgets_file]_vars

\* the list was shown newest first, in another order than the ledger's
C24_ListedInAnotherOrderThanStored ==
    /\ out.op = "list_transactions"
    /\ out.shown
    /\ Len(out.rows) = Len(transactions_file)
    /\ out.rows # transactions_file
    /\ budgets_file # <<>>

-----------------------------------------------------------------------------
(* Properties of what the components say of one budget (SpecAgreement) *)

\* the rows view_budgets shows on the present files
OverviewRows ==
    budget_overview(load_budgets(budgets_file),
                    load_transactions(transactions_file), today).rows

\* C27: for every budget amount and every current-month spend the status
\* (OVER / WARNING / OK) in the Budget Performance table of
\* generate_monthly_report is the status view_budgets shows for that budget,
\* also when the spend equals the amount, when it is exactly 70% of it, and
\* for a budget of zero with a positive spend.
C27_ReportStatusIsOverviewStatus ==
    (ReportGenerated /\ budgets_file # <<>>) =>
        \A i \in DOMAIN out.budget_rows :
            out.budget_rows[i].status = OverviewRows[i].status

\* the budgets get_spending_alerts reports as exceeded on the present files
ExceededAlerts ==
    SelectSeq(spending_alerts(load_budgets(budgets_file),
                              load_transactions(transactions_file), today),
              LAMBDA a : a.kind = "exceeded")

HasExceededAlert(category) ==
    \E i \in DOMAIN ExceededAlerts : ExceededAlerts[i].category = category

NamedOverBudget(category) ==
    LET named == over_budget_categories(load_budgets(budgets_file),
                                        load_transactions(transactions_file),
                                        today)
    IN  \E i \in DOMAIN named : named[i] = category

\* C28: for the same ledger and budgets, a budget has an 'exceeded' alert of
\* get_spending_alerts and the status OVER in view_budgets iff
\* financial_health_score counts it in over_count and smart_recommendations
\* names it among the over-budget categories.
C28_OneMeaningOfOverBudget ==
    (HealthShown /\ HealthComputed /\ budgets_file # <<>>) =>
        /\ \A i \in DOMAIN OverviewRows :
               /\ OverviewRows[i].status = "OVER"
                      <=> HasExceededAlert(OverviewRows[i].category)
               /\ HasExceededAlert(OverviewRows[i].category)
                      <=> NamedOverBudget(OverviewRows[i].category)
        /\ out.over_count = Len(ExceededAlerts)

-----------------------------------------------------------------------------
(* Properties of the periods of the analyses (SpecPeriods) *)

PeriodsComputed == out.op = "trend_periods"

\* C29: for every current date the three periods of the 'last 3 months'
\* computations are three distinct consecutive calendar months ending with
\* the current one, oldest first, and the period before the newest is the
\* month the 'comparison with last month' uses.
C29_ThreeConsecutiveMonths ==
    PeriodsComputed =>
        /\ out.periods[3] = [year |-> today.year, month |-> today.month]
        /\ out.periods[2] = last_month_date(out.periods[3])
        /\ out.periods[1] = last_month_date(out.periods[2])
        /\ out.periods[2] = out.last_month

=============================================================================
